---- MODULE Spec2Model ----
(***************************************************************************)
(* foliot: a per-namespace time tracker (src/src/main.rs).                 *)
(*                                                                         *)
(* The data directory is a map from relative paths to file contents.  A    *)
(* namespace owns a clock-in file (the Marker) and an entries file (the    *)
(* Entry Store).  Instants are whole seconds counted from a fixed local    *)
(* instant;  strings are sequences of one-character strings.               *)
(***************************************************************************)
EXTENDS Integers, Sequences, FiniteSets, Bags, TLC

\* ------------------------------------------------------------------ bounds
\* The wall clock is sampled at the strides 0..MaxStep.
MaxStep == 2
\* No command that adds an entry is issued once a store holds this many.
MaxEntries == 2
\* SpecNow draws its instants from the minutes 0..MaxNowMinute.
MaxNowMinute == 2
\* SpecAdd adds durations of up to this many hours.
MaxHours == 1
\* SpecReport fills a store with up to this many entries and asks for up to
\* this many last rows.
MaxReportEntries == 3

\* ------------------------------------------------------- Option<T>, Result
None == <<>>
Some(x) == <<x>>
is_some(o) == o # <<>>
unwrap(o) == o[1]

Ok == "Ok"

\* Error messages of the program (Result<(), String>).
ErrNotRunning == "Clock is not running for namespace"
ErrOverlap == "New entry overlaps an existing one"
ErrAlreadyExists == "Clock-in file already exists"
ErrNoClockin == "No clockin file found"
ErrPathNotFound == "Path not found"
ErrDeserialize == "serde_yaml error"
ErrIo == "io error"

\* Which class of file-system call fails during one invocation.
NoFault == "none"

\* ----------------------------------------------------------------- strings
\* The characters in use, in byte order.
Chars == <<"-", ".", "a", "b", "c", "d", "e", "f", "i", "k", "l", "m", "n", "o", "t", "u", "w", "x", "y">>

CharOrd(c) == CHOOSE i \in 1..Len(Chars) : Chars[i] = c

\* str::cmp: lexicographic byte order.
RECURSIVE StrLess(_, _)
StrLess(s, t) ==
    IF t = <<>> THEN FALSE
    ELSE IF s = <<>> THEN TRUE
    ELSE IF Head(s) # Head(t) THEN CharOrd(Head(s)) < CharOrd(Head(t))
    ELSE StrLess(Tail(s), Tail(t))

\* Option<String>::cmp: None sorts before every Some.
OptStrLess(a, b) ==
    IF ~is_some(b) THEN FALSE
    ELSE IF ~is_some(a) THEN TRUE
    ELSE StrLess(unwrap(a), unwrap(b))

DEFAULT_NAMESPACE == <<"d", "e", "f", "a", "u", "l", "t">>
ClockinSuffix == <<"-", "c", "l", "o", "c", "k", "i", "n">>
YamlExt == <<"y", "a", "m", "l">>

\* ------------------------------------------------------------------- paths
\* Position of the last "." of s, 0 when there is none.
LastDot(s) ==
    LET dots == {i \in 1..Len(s) : s[i] = "."}
    IN  IF dots = {} THEN 0 ELSE CHOOSE i \in dots : \A j \in dots : j <= i

\* Path::file_stem of a path of one component: the name up to its last dot;
\* a name with no dot, or whose only dot leads it, is its own stem; "", "."
\* and ".." have no file name.
file_stem(p) ==
    IF p = <<>> \/ p = <<".">> \/ p = <<".", ".">> THEN None
    ELSE IF LastDot(p) <= 1 THEN Some(p)
    ELSE Some(SubSeq(p, 1, LastDot(p) - 1))

\* Path::with_extension: the stem, a dot, the extension; a path with no file
\* name is returned as it is.
with_extension(p, ext) ==
    IF ~is_some(file_stem(p)) THEN p
    ELSE unwrap(file_stem(p)) \o <<".">> \o ext

ClockinTimestamp_relative_path(namespace) ==
    with_extension(namespace \o ClockinSuffix, YamlExt)

Entry_relative_path(namespace) ==
    with_extension(namespace, YamlExt)

\* -------------------------------------------------------------------- time
SecondsPerMinute == 60
MinutesPerHour == 60

\* Rust's integer division and remainder: truncated toward zero, the
\* remainder takes the sign of the dividend.
RustDiv(a, b) == IF a >= 0 THEN a \div b ELSE -((-a) \div b)
RustRem(a, b) == a - b * RustDiv(a, b)

\* DurationRound::duration_round with a span of one minute: to the nearest
\* multiple of the span, a tie going up.
duration_round(stamp, span) ==
    LET delta_down == RustRem(stamp, span)
    IN  IF delta_down = 0 THEN stamp
        ELSE LET up == IF delta_down < 0 THEN -delta_down ELSE span - delta_down
                 down == IF delta_down < 0 THEN span + delta_down ELSE delta_down
             IN  IF up <= down THEN stamp + up ELSE stamp - down

\* Mutant: the seconds are cut off (duration_trunc).
now_trunc(t) == t - RustRem(t, SecondsPerMinute)

\* now(): the wall clock's instant t rounded to the minute.
now(t) == duration_round(t, SecondsPerMinute)

\* chrono::Duration (whole seconds) into HumanDuration.
HumanDuration_from(secs) ==
    [hours |-> RustDiv(secs, SecondsPerMinute * MinutesPerHour),
     minutes |-> RustRem(RustDiv(secs, SecondsPerMinute), MinutesPerHour)]

HumanDuration_zero == [hours |-> 0, minutes |-> 0]

\* Mutant: the hour is carried but the minutes are left unreduced.
HumanDuration_add_unreduced(self, other) ==
    LET added_minutes == self.minutes + other.minutes
    IN  [hours |-> self.hours + other.hours + RustDiv(added_minutes, MinutesPerHour),
         minutes |-> added_minutes]

HumanDuration_add(self, other) ==
    LET added_minutes == self.minutes + other.minutes
    IN  [hours |-> self.hours + other.hours + RustDiv(added_minutes, MinutesPerHour),
         minutes |-> RustRem(added_minutes, MinutesPerHour)]

\* ------------------------------------------------------------------- Entry
Entry_create(start_time, end_time, comment) ==
    [start_time |-> start_time, end_time |-> end_time, comment |-> comment]

Entry_duration(self) == HumanDuration_from(self.end_time - self.start_time)

\* #[derive(Ord)] on Entry: by start_time, then end_time, then comment.
EntryLess(a, b) ==
    \/ a.start_time < b.start_time
    \/ a.start_time = b.start_time /\ a.end_time < b.end_time
    \/ a.start_time = b.start_time /\ a.end_time = b.end_time
         /\ OptStrLess(a.comment, b.comment)

\* Insert e after the last element not greater than it.
RECURSIVE InsertSorted(_, _)
InsertSorted(e, s) ==
    IF s = <<>> THEN <<e>>
    ELSE IF EntryLess(e, Head(s)) THEN <<e>> \o s
    ELSE <<Head(s)>> \o InsertSorted(e, Tail(s))

\* entries.sort(): a stable sort by EntryLess.
RECURSIVE sort(_)
sort(s) == IF s = <<>> THEN <<>> ELSE InsertSorted(s[Len(s)], sort(SubSeq(s, 1, Len(s) - 1)))

\* Mutant: only the candidate's own endpoints are tested.
entries_overlap_one_sided(e1, e2) ==
    \/ (e1.start_time > e2.start_time /\ e1.start_time < e2.end_time)
    \/ (e1.end_time > e2.start_time /\ e1.end_time < e2.end_time)

\* Mutant: the comparisons admit the boundary.
entries_overlap_inclusive(e1, e2) ==
    \/ (e1.start_time >= e2.start_time /\ e1.start_time <= e2.end_time)
    \/ (e1.end_time >= e2.start_time /\ e1.end_time <= e2.end_time)
    \/ (e2.start_time >= e1.start_time /\ e2.start_time <= e1.end_time)
    \/ (e2.end_time >= e1.start_time /\ e2.end_time <= e1.end_time)

\* Check if the timespan of two entries overlap.
entries_overlap(e1, e2) ==
    \/ (e1.start_time > e2.start_time /\ e1.start_time < e2.end_time)
    \/ (e1.end_time > e2.start_time /\ e1.end_time < e2.end_time)
    \/ (e2.start_time > e1.start_time /\ e2.start_time < e1.end_time)
    \/ (e2.end_time > e1.start_time /\ e2.end_time < e1.end_time)

\* ------------------------------------------------------------ data files
\* serde_yaml::to_string: the document records what was serialized.
serialize(type, data) == [type |-> type, data |-> data]

TClockinTimestamp == "ClockinTimestamp"
TEntries == "Vec<Entry>"

Err(msg) == [res |-> msg, val |-> None]

\* Check whether a file with the relative path `path` exists.
data_file_exists(fs, path) == path \in DOMAIN fs

\* The storage failures of one invocation: the read of the clockin file or
\* of the entries file fails, a write fails before the file is opened
\* (place_data_file, File::create) or after fs::write has truncated it, the
\* removal fails.
FaultReadMarker == "read marker"
FaultReadEntries == "read entries"
FaultWrite == "write"
FaultWriteAll == "write_all"
FaultRemove == "remove"
ReadFault(type) == IF type = TClockinTimestamp THEN FaultReadMarker ELSE FaultReadEntries

\* What fs::write leaves when it fails after opening the file: the file is
\* there, cut to nothing, and deserializes as neither type.
TEmpty == "empty"
Truncated == [type |-> TEmpty, data |-> <<>>]

\* Deserialize a file: the path must be found, the read must succeed and the
\* document must be of the type asked for.
read_data_file(fs, path, type, fault) ==
    IF path \notin DOMAIN fs THEN Err(ErrPathNotFound)
    ELSE IF fault = ReadFault(type) THEN Err(ErrIo)
    ELSE IF fs[path].type # type THEN Err(ErrDeserialize)
    ELSE [res |-> Ok, val |-> fs[path].data]

\* Serialize a file: the whole file is replaced.
write_data_file(fs, path, type, data, fault) ==
    IF fault = FaultWrite THEN [res |-> ErrIo, files |-> fs]
    ELSE IF fault = FaultWriteAll
    THEN [res |-> ErrIo,
          files |-> [p \in DOMAIN fs \cup {path} |->
                        IF p = path THEN Truncated ELSE fs[p]]]
    ELSE [res |-> Ok,
          files |-> [p \in DOMAIN fs \cup {path} |->
                        IF p = path THEN serialize(type, data) ELSE fs[p]]]

\* Delete a file.
remove_data_file(fs, path, fault) ==
    IF path \notin DOMAIN fs THEN [res |-> ErrPathNotFound, files |-> fs]
    ELSE IF fault = FaultRemove THEN [res |-> ErrIo, files |-> fs]
    ELSE [res |-> Ok, files |-> [p \in DOMAIN fs \ {path} |-> fs[p]]]

\* ---------------------------------------------------------------- commands
\* Each command maps the data directory fs to its result and the directory
\* it leaves; t is the wall clock's instant when the command runs.

\* Mutant: the file is deleted without asking whether it exists.
abort_unchecked(fs, namespace, fault) ==
    remove_data_file(fs, ClockinTimestamp_relative_path(namespace), fault)

\* Mutant: the clock is reported aborted and the file stays.
abort_keeps_file(fs, namespace, fault) ==
    IF ~data_file_exists(fs, ClockinTimestamp_relative_path(namespace))
    THEN [res |-> ErrNotRunning, files |-> fs]
    ELSE [res |-> Ok, files |-> fs]

\* Abort the currently running clock by deleting its file.
abort(fs, namespace, fault) ==
    LET path == ClockinTimestamp_relative_path(namespace)
    IN  IF ~data_file_exists(fs, path)
        THEN [res |-> ErrNotRunning, files |-> fs]
        ELSE remove_data_file(fs, path, fault)

\* Mutant: the file is rewritten with the new entry alone.
clock_forgets_entries(fs, start, end, comment, namespace, fault) ==
    LET path == Entry_relative_path(namespace)
        loaded == IF data_file_exists(fs, path)
                  THEN read_data_file(fs, path, TEntries, fault)
                  ELSE [res |-> Ok, val |-> <<>>]
    IN  IF loaded.res # Ok THEN [res |-> loaded.res, files |-> fs]
        ELSE LET entries == sort(loaded.val)
                 entry == Entry_create(start, end, comment)
             IN  IF \E i \in 1..Len(entries) : entries_overlap(entry, entries[i])
                 THEN [res |-> ErrOverlap, files |-> fs]
                 ELSE write_data_file(fs, path, TEntries, <<entry>>, fault)

\* The candidate is checked against every stored entry, then pushed behind
\* the sorted entries and the file is rewritten.
clock(fs, start, end, comment, namespace, fault) ==
    LET path == Entry_relative_path(namespace)
        loaded == IF data_file_exists(fs, path)
                  THEN read_data_file(fs, path, TEntries, fault)
                  ELSE [res |-> Ok, val |-> <<>>]
    IN  IF loaded.res # Ok THEN [res |-> loaded.res, files |-> fs]
        ELSE LET entries == sort(loaded.val)
                 entry == Entry_create(start, end, comment)
             IN  IF \E i \in 1..Len(entries) : entries_overlap(entry, entries[i])
                 THEN [res |-> ErrOverlap, files |-> fs]
                 ELSE write_data_file(fs, path, TEntries, Append(entries, entry), fault)

\* (hours * 60.0) as i64, in seconds.  hours is a rational [num, den] with
\* den a power of two, for which the f64 product is exact; the cast
\* truncates toward zero.
duration_of_hours(hours) ==
    RustDiv(hours.num * MinutesPerHour, hours.den) * SecondsPerMinute

\* Mutant: a successful clock also stops a running timer.
clock_duration_stops_timer(fs, hours, starting, comment, namespace, t, fault) ==
    LET duration == duration_of_hours(hours)
        start == IF is_some(starting) THEN unwrap(starting) ELSE now(t) - duration
        end == IF is_some(starting) THEN unwrap(starting) + duration ELSE now(t)
        r == clock(fs, start, end, comment, namespace, fault)
        clockin_path == ClockinTimestamp_relative_path(namespace)
    IN  IF r.res = Ok /\ data_file_exists(r.files, clockin_path)
        THEN remove_data_file(r.files, clockin_path, fault)
        ELSE r

clock_duration(fs, hours, starting, comment, namespace, t, fault) ==
    LET duration == duration_of_hours(hours)
        start == IF is_some(starting) THEN unwrap(starting) ELSE now(t) - duration
        end == IF is_some(starting) THEN unwrap(starting) + duration ELSE now(t)
    IN  clock(fs, start, end, comment, namespace, fault)

\* Mutant: an explicit starting time replaces a running clock.
clockin_overwrites(fs, starting, namespace, t, fault) ==
    LET path == ClockinTimestamp_relative_path(namespace)
    IN  IF is_some(starting)
        THEN write_data_file(fs, path, TClockinTimestamp,
                             [start_time |-> unwrap(starting)], fault)
        ELSE IF data_file_exists(fs, path)
        THEN [res |-> ErrAlreadyExists, files |-> fs]
        ELSE write_data_file(fs, path, TClockinTimestamp,
                             [start_time |-> now(t)], fault)

\* Mutant: a start time inside a stored entry is refused.
clockin_validates(fs, starting, namespace, t, fault) ==
    LET path == ClockinTimestamp_relative_path(namespace)
        timestamp == IF is_some(starting)
                     THEN [start_time |-> unwrap(starting)]
                     ELSE [start_time |-> now(t)]
        stored == read_data_file(fs, Entry_relative_path(namespace), TEntries, fault)
    IN  IF data_file_exists(fs, path)
        THEN [res |-> ErrAlreadyExists, files |-> fs]
        ELSE IF stored.res = Ok
                /\ \E i \in 1..Len(stored.val) :
                       /\ stored.val[i].start_time < timestamp.start_time
                       /\ timestamp.start_time < stored.val[i].end_time
        THEN [res |-> ErrOverlap, files |-> fs]
        ELSE write_data_file(fs, path, TClockinTimestamp, timestamp, fault)

\* Start a new clock by creating a new clockin file.
clockin(fs, starting, namespace, t, fault) ==
    LET path == ClockinTimestamp_relative_path(namespace)
        timestamp == IF is_some(starting)
                     THEN [start_time |-> unwrap(starting)]
                     ELSE [start_time |-> now(t)]
    IN  IF data_file_exists(fs, path)
        THEN [res |-> ErrAlreadyExists, files |-> fs]
        ELSE write_data_file(fs, path, TClockinTimestamp, timestamp, fault)

\* Mutant: the clockin file is not removed after the entry is written.
clockout_keeps_marker(fs, comment, namespace, t, fault) ==
    LET clockin_path == ClockinTimestamp_relative_path(namespace)
        clockin_timestamp == read_data_file(fs, clockin_path, TClockinTimestamp, fault)
    IN  IF clockin_timestamp.res # Ok THEN [res |-> ErrNoClockin, files |-> fs]
        ELSE clock(fs, clockin_timestamp.val.start_time, now(t), comment,
                   namespace, fault)

\* Mutant: the clockin file is removed whatever clock returns.
clockout_removes_marker_anyway(fs, comment, namespace, t, fault) ==
    LET clockin_path == ClockinTimestamp_relative_path(namespace)
        clockin_timestamp == read_data_file(fs, clockin_path, TClockinTimestamp, fault)
    IN  IF clockin_timestamp.res # Ok THEN [res |-> ErrNoClockin, files |-> fs]
        ELSE LET r == clock(fs, clockin_timestamp.val.start_time, now(t), comment,
                            namespace, fault)
                 d == remove_data_file(r.files, clockin_path, fault)
             IN  IF r.res # Ok THEN [res |-> r.res, files |-> d.files] ELSE d

\* Stop the clock and add the entry to the entries file.
clockout(fs, comment, namespace, t, fault) ==
    LET clockin_path == ClockinTimestamp_relative_path(namespace)
        clockin_timestamp == read_data_file(fs, clockin_path, TClockinTimestamp, fault)
    IN  IF clockin_timestamp.res # Ok THEN [res |-> ErrNoClockin, files |-> fs]
        ELSE LET r == clock(fs, clockin_timestamp.val.start_time, now(t), comment,
                            namespace, fault)
             IN  IF r.res # Ok THEN r
                 ELSE remove_data_file(r.files, clockin_path, fault)

\* ------------------------------------------------------------------ inputs
Namespaces == {DEFAULT_NAMESPACE}

Comments == {None, Some(<<"w">>)}

\* The wall clock is sampled every 04:15h, so that the third sample lies
\* 08:30h after the first.
StrideMinutes == 4 * MinutesPerHour + 15

\* Instants at which a command may run: the samples, and half a minute
\* before the second one.
Instants ==
    {k * StrideMinutes * SecondsPerMinute : k \in 0..MaxStep}
        \cup {StrideMinutes * SecondsPerMinute - 30}

\* --starting values (NaiveDateTime): none, the first sample, the second.
StartingValues == {None, Some(0), Some(StrideMinutes * SecondsPerMinute)}

\* The scenario's clock-out, 08:30h after the first sample.
ScenarioMinute == 2 * StrideMinutes

\* hours values: 545/128 h (255.46875 min).
HoursValues == {[num |-> 545, den |-> 128]}

\* ------------------------------------------------------------------- state
VARIABLES
    files,   \* the data directory: relative path -> document
    wall,    \* the wall clock's instant at the last command that read it
    cmd,     \* the last command and its arguments
    pre,     \* the data directory before the last command
    result,  \* what the last command returned
    output,  \* the rows of the table the last command printed
    procs    \* the invocations that run side by side, each with its position

vars == <<files, wall, cmd, pre, result, output, procs>>

\* No invocation is under way: each command runs from start to end alone.
NoProcs == <<>>

EmptyDir == [p \in {} |-> None]

\* A command line: the arguments a subcommand does not take are None.
Command(op, ns, starting, hours, comment, t) ==
    [op |-> op, namespace |-> ns, starting |-> starting, hours |-> hours,
     comment |-> comment, at |-> t]

Init ==
    /\ files = EmptyDir
    /\ wall = 0
    /\ cmd = Command("none", DEFAULT_NAMESPACE, None, None, None, 0)
    /\ pre = EmptyDir
    /\ result = Ok
    /\ output = <<>>
    /\ procs = NoProcs

\* The Entry Store and the Marker of a namespace as found in directory fs.
Store(fs, namespace) ==
    LET r == read_data_file(fs, Entry_relative_path(namespace), TEntries, NoFault)
    IN  IF r.res = Ok THEN r.val ELSE <<>>

Marker(fs, namespace) ==
    LET r == read_data_file(fs, ClockinTimestamp_relative_path(namespace),
                            TClockinTimestamp, NoFault)
    IN  IF r.res = Ok THEN Some(r.val) ELSE None

\* One invocation of the program: command line c runs at instant c.at and
\* returns r; it is not issued when it would leave more than max entries in
\* its namespace's store.
ExecuteBounded(c, r, max) ==
    /\ c.at >= wall
    /\ Len(Store(r.files, c.namespace)) <= max
    /\ files' = r.files
    /\ result' = r.res
    /\ pre' = files
    /\ wall' = c.at
    /\ cmd' = c
    /\ output' = <<>>
    /\ procs' = procs

Execute(c, r) == ExecuteBounded(c, r, MaxEntries)

\* A command that does not read the clock runs at the instant of the last
\* command: the time that passes shows in the next command that reads it.
Abort(ns) ==
    Execute(Command("abort", ns, None, None, None, wall),
            abort(files, ns, NoFault))

Clockin(ns, starting, t) ==
    /\ is_some(starting) => t = wall
    /\ Execute(Command("clockin", ns, starting, None, None, t),
               clockin(files, starting, ns, t, NoFault))

Clockout(ns, comment, t) ==
    Execute(Command("clockout", ns, None, None, comment, t),
            clockout(files, comment, ns, t, NoFault))

ClockDuration(ns, hours, starting, comment, t) ==
    /\ is_some(starting) => t = wall
    /\ Execute(Command("clock", ns, starting, Some(hours), comment, t),
               clock_duration(files, hours, starting, comment, ns, t, NoFault))

Next ==
    \E ns \in Namespaces :
        \/ Abort(ns)
        \/ \E starting \in StartingValues, t \in Instants : Clockin(ns, starting, t)
        \/ \E comment \in Comments, t \in Instants : Clockout(ns, comment, t)
        \/ \E hours \in HoursValues, starting \in StartingValues, comment \in Comments,
              t \in Instants :
               ClockDuration(ns, hours, starting, comment, t)

Spec == Init /\ [][Next]_vars

\* ----------------------------------------------------------- now() alone
\* The commands that read the clock, run at every second of a few minutes
\* (the minute before the first sample included).
NowInstants ==
    (-SecondsPerMinute)..(MaxNowMinute * SecondsPerMinute + SecondsPerMinute - 1)

InitNow ==
    /\ files = EmptyDir
    /\ wall \in NowInstants
    /\ cmd = Command("none", DEFAULT_NAMESPACE, None, None, None, 0)
    /\ pre = EmptyDir
    /\ result = Ok
    /\ output = <<>>
    /\ procs = NoProcs

ClockinNow(ns) == Clockin(ns, None, wall)

ClockoutNow(ns, comment) == Clockout(ns, comment, wall)

NextNow ==
    \E ns \in Namespaces :
        \/ ClockinNow(ns)
        \/ \E comment \in Comments : ClockoutNow(ns, comment)
        \/ Abort(ns)

SpecNow == InitNow /\ [][NextNow]_vars

\* =================================================================== claims
\* What the claims speak of, in the words of the specification.

\* x lies strictly inside the span of entry e.
StrictlyInside(x, e) == e.start_time < x /\ x < e.end_time

\* The four-condition strict overlap test.
overlaps(a, b) ==
    \/ StrictlyInside(a.start_time, b)
    \/ StrictlyInside(a.end_time, b)
    \/ StrictlyInside(b.start_time, a)
    \/ StrictlyInside(b.end_time, a)

Positive(e) == e.end_time > e.start_time

\* The number of times each entry occurs in a store.
BagOfSeq(s) ==
    [e \in {s[i] : i \in 1..Len(s)} |-> Cardinality({i \in 1..Len(s) : s[i] = e})]

\* The namespace of the last command, before and after it.
PreStore == Store(pre, cmd.namespace)
PostStore == Store(files, cmd.namespace)
PreMarker == Marker(pre, cmd.namespace)
PostMarker == Marker(files, cmd.namespace)
MarkerPath == ClockinTimestamp_relative_path(cmd.namespace)
Running(fs) == MarkerPath \in DOMAIN fs

\* The entry the last command asked to add: clockOut's runs from the Marker
\* to the rounded time, clockDuration's from its arguments.
HasCandidate ==
    \/ cmd.op = "clock"
    \/ cmd.op = "clockout" /\ is_some(PreMarker)

Candidate ==
    IF cmd.op = "clockout"
    THEN [start_time |-> unwrap(PreMarker).start_time, end_time |-> now(cmd.at),
          comment |-> cmd.comment]
    ELSE LET span == duration_of_hours(unwrap(cmd.hours))
         IN  IF is_some(cmd.starting)
             THEN [start_time |-> unwrap(cmd.starting),
                   end_time |-> unwrap(cmd.starting) + span,
                   comment |-> cmd.comment]
             ELSE [start_time |-> now(cmd.at) - span, end_time |-> now(cmd.at),
                   comment |-> cmd.comment]

\* C1: in every reachable state no two entries at different positions of a
\* namespace's Entry Store satisfy the four-condition overlap test.
C1_NoTwoEntriesOverlap ==
    \A ns \in Namespaces :
        LET s == Store(files, ns)
        IN  \A i, j \in 1..Len(s) : i # j => ~overlaps(s[i], s[j])

\* C1 witness: a store of two entries of positive duration, the second just
\* added.
C1_Witness ==
    /\ cmd.op \in {"clock", "clockout"}
    /\ result = Ok
    /\ Len(PostStore) = 2
    /\ Positive(PostStore[1]) /\ Positive(PostStore[2])

\* C2: a clockOut in state Running whose entry overlaps no stored entry
\* succeeds, deletes the Marker and leaves the store with the entries it had
\* plus exactly the entry {Marker start, rounded time, comment}; clockIn at
\* 09:00 and clockOut at 17:30 on an empty namespace leave one entry of
\* 08:30h.
C2_ClockoutAppendsEntry ==
    (/\ cmd.op = "clockout"
     /\ is_some(PreMarker)
     /\ \A i \in 1..Len(PreStore) : ~overlaps(Candidate, PreStore[i]))
    => /\ result = Ok
       /\ ~Running(files)
       /\ BagOfSeq(PostStore) = BagOfSeq(Append(PreStore, Candidate))
       /\ (/\ PreStore = <<>>
           /\ unwrap(PreMarker).start_time = 0
           /\ cmd.at = ScenarioMinute * SecondsPerMinute)
          => /\ Len(PostStore) = 1
             /\ Entry_duration(PostStore[1]) = [hours |-> 8, minutes |-> 30]

\* C2 witness: the scenario, clocked out with a comment.
C2_Witness ==
    /\ cmd.op = "clockout"
    /\ result = Ok
    /\ PreStore = <<>>
    /\ PreMarker = Some([start_time |-> 0])
    /\ cmd.at = ScenarioMinute * SecondsPerMinute
    /\ is_some(cmd.comment)
    /\ ~Running(files)
    /\ Len(PostStore) = 1
    /\ PostStore[1].comment = cmd.comment
    /\ Entry_duration(PostStore[1]) = [hours |-> 8, minutes |-> 30]

\* C3: a clockOut that fails with OverlapError leaves the Marker present
\* with its start_time and the Entry Store as they were: the namespace stays
\* Running, and abort and clockOut still find the clock.
C3_OverlapKeepsMarker ==
    (cmd.op = "clockout" /\ result = ErrOverlap)
    => /\ is_some(PreMarker)
       /\ PostMarker = PreMarker
       /\ PostStore = PreStore
       /\ files = pre
       /\ abort(files, cmd.namespace, NoFault).res = Ok
       /\ \A c \in Comments, t \in Instants :
              clockout(files, c, cmd.namespace, t, NoFault).res # ErrNoClockin

\* C3 witness: a clockOut refused for overlap, the clock still running.
C3_Witness ==
    /\ cmd.op = "clockout"
    /\ result = ErrOverlap
    /\ is_some(PostMarker)
    /\ \E i \in 1..Len(PreStore) : overlaps(Candidate, PreStore[i])

\* C4: clockIn on a namespace that has a Marker fails with
\* AlreadyRunningError, with or without an explicit start time, and leaves
\* the Marker and the Entry Store unchanged.
C4_ClockinWhileRunningFails ==
    (cmd.op = "clockin" /\ Running(pre))
    => /\ result = ErrAlreadyExists
       /\ PostMarker = PreMarker
       /\ PostStore = PreStore
       /\ files = pre

\* C4 witness: a clockIn with an explicit start time other than the running
\* clock's is refused.
C4_Witness ==
    /\ cmd.op = "clockin"
    /\ is_some(cmd.starting)
    /\ result = ErrAlreadyExists
    /\ is_some(PostMarker)
    /\ unwrap(PostMarker).start_time # unwrap(cmd.starting)

\* C5: in state Idle clockOut and abort both fail with NotRunningError,
\* create no Marker and leave the Entry Store unchanged.
NotRunningError == {ErrNotRunning, ErrNoClockin}

C5_IdleClockoutAndAbortFail ==
    (cmd.op \in {"clockout", "abort"} /\ ~Running(pre))
    => /\ result \in NotRunningError
       /\ ~Running(files)
       /\ PostStore = PreStore
       /\ files = pre

\* C5 witness: a clockOut with no clock running, on a store that holds an
\* entry.
C5_Witness ==
    /\ cmd.op = "clockout"
    /\ ~Running(pre)
    /\ result = ErrNoClockin
    /\ Len(PostStore) >= 1

\* C6: abort in state Running succeeds, deletes the Marker and leaves the
\* Entry Store as it was, whatever the running interval overlaps; afterwards
\* every clockIn succeeds.
C6_AbortDeletesMarkerOnly ==
    (cmd.op = "abort" /\ Running(pre))
    => /\ result = Ok
       /\ ~Running(files)
       /\ PostStore = PreStore
       /\ files = [p \in DOMAIN pre \ {MarkerPath} |-> pre[p]]
       /\ \A starting \in StartingValues, t \in Instants :
              clockin(files, starting, cmd.namespace, t, NoFault).res = Ok

\* C6 witness: an abort of a clock started strictly inside a stored entry,
\* which no clockOut could have ended.
C6_Witness ==
    /\ cmd.op = "abort"
    /\ result = Ok
    /\ is_some(PreMarker)
    /\ \E i \in 1..Len(PreStore) :
           StrictlyInside(unwrap(PreMarker).start_time, PreStore[i])
    /\ ~Running(files)

\* C7: a clockOut or clockDuration whose candidate has the start and the end
\* of a stored entry of positive duration fails with OverlapError and leaves
\* the store unchanged.
C7_SameSpanRejected ==
    (/\ HasCandidate
     /\ \E i \in 1..Len(PreStore) :
            /\ Positive(PreStore[i])
            /\ PreStore[i].start_time = Candidate.start_time
            /\ PreStore[i].end_time = Candidate.end_time)
    => /\ result = ErrOverlap
       /\ PostStore = PreStore

\* Entry a ends exactly where entry b starts, both of positive duration.
BackToBack(a, b) == Positive(a) /\ Positive(b) /\ a.end_time = b.start_time

\* C8: entries A and B of positive duration with A.end_time = B.start_time
\* do not overlap, and a candidate that only touches the stored entries in
\* this way, before or behind them, is appended.
C8_BackToBackAccepted ==
    (/\ HasCandidate
     /\ \A i \in 1..Len(PreStore) :
            BackToBack(Candidate, PreStore[i]) \/ BackToBack(PreStore[i], Candidate))
    => /\ \A i \in 1..Len(PreStore) :
              /\ ~entries_overlap(Candidate, PreStore[i])
              /\ ~entries_overlap(PreStore[i], Candidate)
       /\ result = Ok
       /\ PostStore = Append(sort(PreStore), Candidate)

\* C8 witness: the later entry B was stored first, and entry A ending at
\* B's start is appended after it.
C8_Witness ==
    /\ HasCandidate
    /\ result = Ok
    /\ Len(PreStore) >= 1
    /\ \A i \in 1..Len(PreStore) : BackToBack(Candidate, PreStore[i])
    /\ PostStore[Len(PostStore)] = Candidate

Max(x, y) == IF x >= y THEN x ELSE y
Min(x, y) == IF x <= y THEN x ELSE y

\* The spans of a and b share an instant strictly inside both.
SharesInstant(a, b) ==
    Max(a.start_time, b.start_time) < Min(a.end_time, b.end_time)

\* C9: for entries of positive duration the overlap test is true exactly when
\* the two spans share an instant strictly inside both, and every candidate
\* that shares one with a stored entry is rejected with OverlapError.
C9_OverlapIsSharedInstant ==
    HasCandidate
    => \A i \in 1..Len(PreStore) :
           (Positive(Candidate) /\ Positive(PreStore[i]))
           => /\ entries_overlap(Candidate, PreStore[i])
                    <=> SharesInstant(Candidate, PreStore[i])
              /\ SharesInstant(Candidate, PreStore[i]) => result = ErrOverlap

\* The rounded time of the last command, when it read the clock and
\* recorded it: the Marker's start after a clockIn without a start time,
\* the new entry's end after a clockOut.
RecordedNow ==
    IF cmd.op = "clockin" /\ ~is_some(cmd.starting) /\ result = Ok
    THEN Some(unwrap(PostMarker).start_time)
    ELSE IF cmd.op = "clockout" /\ result = Ok
    THEN Some(PostStore[Len(PostStore)].end_time)
    ELSE None

\* C10 as claimed: now() returns the greatest whole minute that is not later
\* than the instant t.
C10_NowRoundsDown ==
    is_some(RecordedNow)
    => LET m == unwrap(RecordedNow)
       IN  /\ m % SecondsPerMinute = 0
           /\ m <= cmd.at
           /\ cmd.at < m + SecondsPerMinute

\* C10 as amended: now() returns the whole minute nearest to the instant t,
\* a half minute going up; it is later than t, by at most 30 seconds, when
\* t's seconds are 30..59.
C10_NowRoundsToNearest ==
    is_some(RecordedNow)
    => LET m == unwrap(RecordedNow)
       IN  /\ m % SecondsPerMinute = 0
           /\ 2 * (m - cmd.at) <= SecondsPerMinute
           /\ 2 * (cmd.at - m) < SecondsPerMinute

\* C10 witness: a clockIn in the second half of a minute records a start
\* later than the instant it ran at.
C10_Witness ==
    /\ cmd.op = "clockin"
    /\ result = Ok
    /\ cmd.at % SecondsPerMinute >= 30
    /\ is_some(RecordedNow)
    /\ unwrap(RecordedNow) > cmd.at

\* ------------------------------------------------ calendar (chrono::naive)
\* An instant counts seconds of local time from 09:00 on 2024-01-10.
SecondsPerDay == 24 * MinutesPerHour * SecondsPerMinute
EpochSecondOfDay == 9 * MinutesPerHour * SecondsPerMinute

IsLeapYear(year) == (year % 4 = 0 /\ year % 100 # 0) \/ year % 400 = 0

MonthLength(year, month) ==
    IF month = 2 THEN (IF IsLeapYear(year) THEN 29 ELSE 28)
    ELSE IF month \in {4, 6, 9, 11} THEN 30 ELSE 31

\* A NaiveDate is kept as its number of days since 1970-01-01 of the
\* proleptic Gregorian calendar.
NaiveDate_from_ymd(year, month, day) ==
    LET y == IF month <= 2 THEN year - 1 ELSE year
        era == y \div 400
        yoe == y - era * 400
        mp == (month + 9) % 12
        doy == (153 * mp + 2) \div 5 + day - 1
        doe == yoe * 365 + yoe \div 4 - yoe \div 100 + doy
    IN  era * 146097 + doe - 719468

\* The year, month and day of a NaiveDate.
civil_from_days(date) ==
    LET z == date + 719468
        era == z \div 146097
        doe == z - era * 146097
        yoe == (doe - doe \div 1460 + doe \div 36524 - doe \div 146096) \div 365
        doy == doe - (365 * yoe + yoe \div 4 - yoe \div 100)
        mp == (5 * doy + 2) \div 153
        month == IF mp < 10 THEN mp + 3 ELSE mp - 9
        year == yoe + era * 400 + (IF month <= 2 THEN 1 ELSE 0)
    IN  [year |-> year, month |-> month, day |-> doy - (153 * mp + 2) \div 5 + 1]

EpochDate == NaiveDate_from_ymd(2024, 1, 10)

NaiveTime_from_hms(hour, min, sec) ==
    (hour * MinutesPerHour + min) * SecondsPerMinute + sec

\* NaiveDateTime::new followed by Local.from_local_datetime, and the two
\* halves of a DateTime<Local>.
NaiveDateTime_new(date, time) ==
    (date - EpochDate) * SecondsPerDay + time - EpochSecondOfDay

date_naive(t) == EpochDate + (t + EpochSecondOfDay) \div SecondsPerDay

time(t) == (t + EpochSecondOfDay) % SecondsPerDay

checked_sub_days(date, days) == date - days

\* ----------------------------------------------------- the --starting value
\* A value is the format it is written in and the fields it spells out; a
\* format without %S reads no seconds.
FmtIso == "%Y-%m-%dT%H:%M:%S"
FmtDotDash == "%d.%m.%Y-%H:%M"
FmtDotSpace == "%d.%m.%Y %H:%M"
TimeFormats == {"%H:%M", "%H:%Mh", "%H%M", "%H%Mh"}
ErrParse == "unable to parse datetime"

\* Mutant: a time of day equal to the current one is taken as today's.
parse_starting_value_time_inclusive(s, t) ==
    IF s.format \notin TimeFormats THEN [res |-> ErrParse]
    ELSE LET time_ == NaiveTime_from_hms(s.hour, s.minute, 0)
             current_datetime == now(t)
             date == IF time(current_datetime) >= time_
                     THEN date_naive(current_datetime)
                     ELSE checked_sub_days(date_naive(current_datetime), 1)
         IN  [res |-> Ok, val |-> NaiveDateTime_new(date, time_)]

parse_starting_value_time(s, t) ==
    IF s.format \notin TimeFormats THEN [res |-> ErrParse]
    ELSE LET time_ == NaiveTime_from_hms(s.hour, s.minute, 0)
             current_datetime == now(t)
             date == IF time(current_datetime) > time_
                     THEN date_naive(current_datetime)
                     ELSE checked_sub_days(date_naive(current_datetime), 1)
         IN  [res |-> Ok, val |-> NaiveDateTime_new(date, time_)]

parse_starting_value(s, t) ==
    IF s.format = FmtIso
    THEN [res |-> Ok,
          val |-> NaiveDateTime_new(s.date, NaiveTime_from_hms(s.hour, s.minute, s.second))]
    ELSE IF s.format \in {FmtDotDash, FmtDotSpace}
    THEN [res |-> Ok,
          val |-> NaiveDateTime_new(s.date, NaiveTime_from_hms(s.hour, s.minute, 0))]
    ELSE parse_starting_value_time(s, t)

\* A command line whose --starting value is the text s.
StartingCommand(op, ns, s, starting, hours, comment, t) ==
    [op |-> op, namespace |-> ns, starting |-> starting, hours |-> hours,
     comment |-> comment, at |-> t, text |-> s]

ClockinStarting(ns, s) ==
    LET p == parse_starting_value(s, wall)
    IN  /\ p.res = Ok
        /\ Execute(StartingCommand("clockin", ns, s, Some(p.val), None, None, wall),
                   clockin(files, Some(p.val), ns, wall, NoFault))

ClockDurationStarting(ns, hours, s, comment) ==
    LET p == parse_starting_value(s, wall)
    IN  /\ p.res = Ok
        /\ Execute(StartingCommand("clock", ns, s, Some(p.val), Some(hours), comment, wall),
                   clock_duration(files, hours, Some(p.val), comment, ns, wall, NoFault))

\* ------------------------------------- explicit start values (SpecStarting)
\* Dated values around the first sample of the clock, with and without
\* seconds, and the commands that record them.
DatedText(format, date, hour, minute, second) ==
    [format |-> format, date |-> date, hour |-> hour, minute |-> minute,
     second |-> second]

DatedTexts ==
    {DatedText(FmtIso, EpochDate, 9, 0, 0),
     DatedText(FmtIso, NaiveDate_from_ymd(2024, 1, 9), 23, 56, 4),
     DatedText(FmtDotDash, EpochDate, 4, 45, 0)}

NextStarting ==
    \E ns \in Namespaces :
        \/ Abort(ns)
        \/ \E s \in DatedTexts : ClockinStarting(ns, s)
        \/ \E t \in Instants, comment \in Comments : Clockout(ns, comment, t)
        \/ \E s \in DatedTexts, hours \in HoursValues, comment \in Comments :
               ClockDurationStarting(ns, hours, s, comment)

SpecStarting == Init /\ [][NextStarting]_vars

Aligned(t) == t % SecondsPerMinute = 0

\* C11 (as claimed): in every reachable state, whatever explicit start value
\* was given, the Marker's start_time and every entry's start_time and
\* end_time have a seconds component of zero.  The code records a value
\* written with seconds as it is, so this fails.
C11_BoundariesMinuteAligned ==
    \A ns \in Namespaces :
        /\ is_some(Marker(files, ns)) => Aligned(unwrap(Marker(files, ns)).start_time)
        /\ \A i \in 1..Len(Store(files, ns)) :
               /\ Aligned(Store(files, ns)[i].start_time)
               /\ Aligned(Store(files, ns)[i].end_time)

\* --------------------------------------- time-only start values (SpecTimeOnly)
\* The clock is sampled around every third hour of the first day (half a
\* minute before it, on it, 29 seconds and half an hour after it), and a
\* time of day is written for these hours and their half hours.
TimeText(format, hour, minute) == [format |-> format, hour |-> hour, minute |-> minute]

TimeTexts ==
    {TimeText("%H:%M", 3 * k, minute) : k \in 0..7, minute \in {0, 30}}
        \cup {TimeText("%H:%Mh", 9, 30), TimeText("%H%M", 0, 0), TimeText("%H%Mh", 23, 30)}

TimeOnlyInstants ==
    {NaiveDateTime_new(EpochDate, NaiveTime_from_hms(3 * k, 0, 0)) + s :
        k \in 0..7, s \in {-30, 0, 29, 30 * SecondsPerMinute}}

InitTimeOnly ==
    /\ files = EmptyDir
    /\ wall \in TimeOnlyInstants
    /\ cmd = Command("none", DEFAULT_NAMESPACE, None, None, None, 0)
    /\ pre = EmptyDir
    /\ result = Ok
    /\ output = <<>>
    /\ procs = NoProcs

ClockinTimeOnly(ns, s) == ClockinStarting(ns, s)

AbortTimeOnly(ns) == Abort(ns)

NextTimeOnly ==
    \E ns \in Namespaces :
        \/ \E s \in TimeTexts : ClockinTimeOnly(ns, s)
        \/ AbortTimeOnly(ns)

SpecTimeOnly == InitTimeOnly /\ [][NextTimeOnly]_vars

\* The last command was a successful clockin whose --starting value is a
\* time of day.
TimeOnlyClockin ==
    /\ cmd.op = "clockin"
    /\ "text" \in DOMAIN cmd
    /\ cmd.text.format \in TimeFormats
    /\ result = Ok

WrittenTime == NaiveTime_from_hms(cmd.text.hour, cmd.text.minute, 0)
Resolved == unwrap(PostMarker).start_time
Yesterday(t) == date_naive(t) - 1

\* C12: a time-only start value hh:mm is recorded as today at hh:mm when
\* hh:mm is strictly before the time of day of the rounded current time, and
\* as yesterday at hh:mm otherwise (also when the two are equal); the
\* recorded time is never later than the rounded current time.
C12_TimeOnlyResolves ==
    TimeOnlyClockin =>
        /\ time(Resolved) = WrittenTime
        /\ date_naive(Resolved) = IF WrittenTime < time(now(cmd.at))
                                  THEN date_naive(now(cmd.at))
                                  ELSE Yesterday(now(cmd.at))
        /\ Resolved <= now(cmd.at)

\* C12 witness: the written time equals the current rounded time of day and
\* the Marker holds yesterday's date.
C12_Witness ==
    /\ TimeOnlyClockin
    /\ WrittenTime = time(now(cmd.at))
    /\ date_naive(Resolved) = Yesterday(now(cmd.at))
    /\ Resolved = now(cmd.at) - SecondsPerDay

\* ------------------------------------------ adding durations (SpecAdd)
\* The running total of the monthly fold, started from zero() and added to
\* one duration at a time; every duration of up to MaxHours hours and 0..59
\* minutes is an operand and a total.
Durations ==
    {[hours |-> h, minutes |-> m] : h \in 0..MaxHours, m \in 0..(MinutesPerHour - 1)}

InitAdd ==
    /\ files = EmptyDir
    /\ wall = 0
    /\ cmd = [op |-> "none", namespace |-> DEFAULT_NAMESPACE,
              self |-> HumanDuration_zero, other |-> HumanDuration_zero]
    /\ pre = EmptyDir
    /\ result = HumanDuration_zero
    /\ output = <<>>
    /\ procs = NoProcs

Add(other) ==
    /\ HumanDuration_add(result, other).hours <= MaxHours
    /\ result' = HumanDuration_add(result, other)
    /\ cmd' = [op |-> "add", namespace |-> DEFAULT_NAMESPACE,
               self |-> result, other |-> other]
    /\ UNCHANGED <<files, wall, pre, output, procs>>

NextAdd == \E other \in Durations : Add(other)

SpecAdd == InitAdd /\ [][NextAdd]_vars

\* C13: for durations a, b, c of hours >= 0 and minutes 0..59, add is
\* associative and commutative and the minutes of a sum are in 0..59; a and
\* b are the operands of the last addition, c is any duration.
C13_AddAssociativeCommutative ==
    cmd.op = "add" =>
        /\ result = HumanDuration_add(cmd.other, cmd.self)
        /\ result.minutes \in 0..(MinutesPerHour - 1)
        /\ \A c \in Durations :
               HumanDuration_add(cmd.self, HumanDuration_add(cmd.other, c))
                   = HumanDuration_add(result, c)

\* C13 witness: an addition whose minutes carry into the hours.
C13_Witness ==
    /\ cmd.op = "add"
    /\ cmd.self.minutes + cmd.other.minutes >= MinutesPerHour
    /\ result.hours = cmd.self.hours + cmd.other.hours + 1
    /\ result.minutes = cmd.self.minutes + cmd.other.minutes - MinutesPerHour

\* ------------------------------------------------------ show and summarize
ErrNoFile == "No file found for namespace"

\* Regex::is_match for a pattern of literal characters: the pattern occurs
\* somewhere in the text.
is_match(re, text) ==
    \E i \in 1..(Len(text) + 1) :
        /\ i + Len(re) - 1 <= Len(text)
        /\ SubSeq(text, i, i + Len(re) - 1) = re

\* --filter keeps an entry without a comment and one whose comment matches.
passes_filter(filter, e) ==
    \/ ~is_some(filter)
    \/ ~is_some(e.comment)
    \/ is_match(unwrap(filter), unwrap(e.comment))

RECURSIVE filter_entries(_, _)
filter_entries(filter, entries) ==
    IF entries = <<>> THEN <<>>
    ELSE (IF passes_filter(filter, Head(entries)) THEN <<Head(entries)>> ELSE <<>>)
             \o filter_entries(filter, Tail(entries))

\* Mutant: the first rows are kept instead of the last.
tail_slice_head(rows, tail) ==
    IF tail = 0 THEN rows
    ELSE LET len == Len(rows)
             idx == IF len > tail THEN len - tail ELSE 0
         IN  SubSeq(rows, 1, len - idx)

\* --tail: all rows for 0, else the rows from index idx on.
tail_slice(rows, tail) ==
    IF tail = 0 THEN rows
    ELSE LET len == Len(rows)
             idx == IF len > tail THEN len - tail ELSE 0
         IN  SubSeq(rows, idx + 1, len)

TableEntry_from(e) ==
    [date |-> date_naive(e.start_time),
     from |-> time(e.start_time),
     to |-> time(e.end_time),
     duration |-> Entry_duration(e),
     comment |-> IF is_some(e.comment) THEN unwrap(e.comment) ELSE <<>>]

show(fs, filter, tail, namespace, fault) ==
    LET path == Entry_relative_path(namespace)
    IN  IF ~data_file_exists(fs, path)
        THEN [res |-> ErrNoFile, files |-> fs, out |-> <<>>]
        ELSE LET loaded == read_data_file(fs, path, TEntries, fault)
             IN  IF loaded.res # Ok
                 THEN [res |-> loaded.res, files |-> fs, out |-> <<>>]
                 ELSE LET entries == filter_entries(filter, sort(loaded.val))
                          table_entries == [i \in 1..Len(entries) |->
                                               TableEntry_from(entries[i])]
                      IN  [res |-> Ok, files |-> fs,
                           out |-> tail_slice(table_entries, tail)]

\* Vec::dedup: of equal neighbours only the first stays.
RECURSIVE dedup(_)
dedup(s) ==
    IF Len(s) <= 1 THEN s
    ELSE IF s[1] = s[2] THEN dedup(Tail(s))
    ELSE <<s[1]>> \o dedup(Tail(s))

\* NaiveDate::checked_add_months: the same day of the later month, or that
\* month's last day when it has no such day.
checked_add_months(date, months) ==
    LET d == civil_from_days(date)
        index == d.year * 12 + (d.month - 1) + months
        year == index \div 12
        month == (index % 12) + 1
        day == IF d.day <= MonthLength(year, month) THEN d.day
               ELSE MonthLength(year, month)
    IN  NaiveDate_from_ymd(year, month, day)

days_in_month(date) == checked_add_months(date, 1) - date

\* format("%Y/%m %B"): the year and the month; the month's name follows
\* from its number.
format_month(t) ==
    LET d == civil_from_days(date_naive(t))
    IN  [year |-> d.year, month |-> d.month]

RECURSIVE total_hours(_)
total_hours(entries) ==
    IF entries = <<>> THEN HumanDuration_zero
    ELSE HumanDuration_add(total_hours(SubSeq(entries, 1, Len(entries) - 1)),
                           Entry_duration(entries[Len(entries)]))

\* hours_per_week stays the quotient it is computed as, (hours +
\* rem_minutes) / weeks over rationals; its evaluation in f32 and its
\* formatting to two decimals are not carried out.
SummaryTableItem_from(month, entries) ==
    LET dates == dedup([i \in 1..Len(entries) |-> date_naive(entries[i].start_time)])
        total == total_hours(entries)
        weeks == [num |-> days_in_month(date_naive(entries[1].start_time)), den |-> 7]
        rem_minutes == IF total.minutes = 0 THEN [num |-> 0, den |-> 1]
                       ELSE [num |-> 60, den |-> total.minutes]
    IN  [month |-> month,
         total_hours |-> total,
         hours_per_week |-> [hours |-> total.hours, rem_minutes |-> rem_minutes,
                             weeks |-> weeks],
         days |-> Len(dates),
         nitems |-> Len(entries)]

\* The month strings compare as their years and then their months do.
MonthLess(a, b) == a.year < b.year \/ (a.year = b.year /\ a.month < b.month)

RECURSIVE sort_months(_)
sort_months(months) ==
    IF months = {} THEN <<>>
    ELSE LET first == CHOOSE m \in months : \A o \in months \ {m} : MonthLess(m, o)
         IN  <<first>> \o sort_months(months \ {first})

month_vec(entries, month) ==
    LET RECURSIVE pick(_)
        pick(s) == IF s = <<>> THEN <<>>
                   ELSE (IF format_month(Head(s).start_time) = month
                         THEN <<Head(s)>> ELSE <<>>) \o pick(Tail(s))
    IN  pick(entries)

\* Mutant: the entries are grouped in the order they are stored in.
summarize_unsorted(fs, filter, tail, namespace, fault) ==
    LET path == Entry_relative_path(namespace)
    IN  IF ~data_file_exists(fs, path)
        THEN [res |-> ErrNoFile, files |-> fs, out |-> <<>>]
        ELSE LET loaded == read_data_file(fs, path, TEntries, fault)
             IN  IF loaded.res # Ok
                 THEN [res |-> loaded.res, files |-> fs, out |-> <<>>]
                 ELSE LET entries == filter_entries(filter, loaded.val)
                          months == sort_months({format_month(entries[i].start_time) :
                                                    i \in 1..Len(entries)})
                          table_items == [i \in 1..Len(months) |->
                              SummaryTableItem_from(months[i],
                                                    month_vec(entries, months[i]))]
                      IN  [res |-> Ok, files |-> fs,
                           out |-> tail_slice(table_items, tail)]

\* The entries are sorted, filtered and grouped by month in that order; the
\* rows are sorted by month, whatever order the map gave them in.
summarize(fs, filter, tail, namespace, fault) ==
    LET path == Entry_relative_path(namespace)
    IN  IF ~data_file_exists(fs, path)
        THEN [res |-> ErrNoFile, files |-> fs, out |-> <<>>]
        ELSE LET loaded == read_data_file(fs, path, TEntries, fault)
             IN  IF loaded.res # Ok
                 THEN [res |-> loaded.res, files |-> fs, out |-> <<>>]
                 ELSE LET entries == filter_entries(filter, sort(loaded.val))
                          months == sort_months({format_month(entries[i].start_time) :
                                                    i \in 1..Len(entries)})
                          table_items == [i \in 1..Len(months) |->
                              SummaryTableItem_from(months[i],
                                                    month_vec(entries, months[i]))]
                      IN  [res |-> Ok, files |-> fs,
                           out |-> tail_slice(table_items, tail)]

\* ------------------------------------------ reports of a store (SpecReport)
\* Entries of 4:15h are clocked at four explicit starts: two on 2024-01-10,
\* one on 2024-01-31 and one on 2024-02-29, in any order; show and summarize
\* run on every store this leaves.
ReportStartingValues ==
    {Some(NaiveDateTime_new(NaiveDate_from_ymd(2024, 1, 10), NaiveTime_from_hms(9, 0, 0))),
     Some(NaiveDateTime_new(NaiveDate_from_ymd(2024, 1, 10), NaiveTime_from_hms(14, 0, 0))),
     Some(NaiveDateTime_new(NaiveDate_from_ymd(2024, 1, 31), NaiveTime_from_hms(9, 0, 0))),
     Some(NaiveDateTime_new(NaiveDate_from_ymd(2024, 2, 29), NaiveTime_from_hms(9, 0, 0)))}

FilterValues == {None, Some(<<"x">>)}
TailValues == 0..MaxReportEntries

ReportCommand(op, ns, filter, tail, t) ==
    [op |-> op, namespace |-> ns, filter |-> filter, tail |-> tail, at |-> t]

\* One invocation of a command that prints a table and writes nothing.
Report(c, r) ==
    /\ c.at >= wall
    /\ files' = r.files
    /\ result' = r.res
    /\ output' = r.out
    /\ procs' = procs
    /\ pre' = files
    /\ wall' = c.at
    /\ cmd' = c

Show(ns, filter, tail) ==
    Report(ReportCommand("show", ns, filter, tail, wall),
           show(files, filter, tail, ns, NoFault))

Summarize(ns, filter, tail) ==
    Report(ReportCommand("summarize", ns, filter, tail, wall),
           summarize(files, filter, tail, ns, NoFault))

ClockDurationReport(ns, hours, starting, comment) ==
    ExecuteBounded(Command("clock", ns, starting, Some(hours), comment, wall),
                   clock_duration(files, hours, starting, comment, ns, wall, NoFault),
                   MaxReportEntries)

NextReport ==
    \E ns \in Namespaces :
        \/ \E hours \in HoursValues, starting \in ReportStartingValues,
              comment \in Comments : ClockDurationReport(ns, hours, starting, comment)
        \/ \E filter \in FilterValues, tail \in TailValues : Show(ns, filter, tail)
        \/ \E filter \in FilterValues, tail \in TailValues : Summarize(ns, filter, tail)

SpecReport == Init /\ [][NextReport]_vars

\* The entries a report of the last command's store is made from, and those
\* of one month among them.
Reported == filter_entries(cmd.filter, sort(PreStore))
InMonth(month) ==
    {i \in 1..Len(Reported) : format_month(Reported[i].start_time) = month}
FirstOfMonth(month) ==
    CHOOSE i \in InMonth(month) : \A j \in InMonth(month) : i <= j
Summarized == cmd.op = "summarize" /\ result = Ok

\* C14 (as claimed): for every row of a summary the days_in_month the row's
\* rate is computed from is the number of days of the calendar month of the
\* group's first entry, whatever its day of the month.  A first entry on the
\* 29th to 31st of a month followed by a shorter one breaks this.
C14_DaysInMonthIsMonthLength ==
    Summarized =>
        \A r \in 1..Len(output) :
            LET d == civil_from_days(
                         date_naive(Reported[FirstOfMonth(output[r].month)].start_time))
            IN  output[r].hours_per_week.weeks.num = MonthLength(d.year, d.month)

\* The rows the last report would print without --tail.
AllRows ==
    IF cmd.op = "show" THEN show(pre, cmd.filter, 0, cmd.namespace, NoFault).out
    ELSE summarize(pre, cmd.filter, 0, cmd.namespace, NoFault).out
Reporting == cmd.op \in {"show", "summarize"}

\* C17: show and summarize succeed whenever the store's file is there,
\* whatever --tail is; with --tail 0 they print every row of the sorted and
\* filtered result, with --tail N > 0 exactly its last min(N, len) rows in
\* the same order.
C17_TailKeepsLastRows ==
    Reporting =>
        /\ result = Ok <=> Entry_relative_path(cmd.namespace) \in DOMAIN pre
        /\ result = Ok =>
              LET len == Len(AllRows)
                  kept == IF cmd.tail = 0 THEN len ELSE Min(cmd.tail, len)
              IN  /\ Len(output) = kept
                  /\ \A i \in 1..kept : output[i] = AllRows[len - kept + i]

\* C17 witness: a report of more rows than --tail asks for prints the last
\* ones only.
C17_Witness ==
    /\ Reporting
    /\ result = Ok
    /\ cmd.tail > 0
    /\ Len(AllRows) > cmd.tail
    /\ Len(output) = cmd.tail
    /\ output[1] # AllRows[1]
    /\ output[Len(output)] = AllRows[Len(AllRows)]

\* C19: in every summary row, days is the number of distinct calendar dates
\* among the start times of the month's entries, in whatever order the store
\* holds them.
C19_DistinctDaysCountsDates ==
    Summarized =>
        \A r \in 1..Len(output) :
            output[r].days =
                Cardinality({date_naive(Reported[i].start_time) :
                                i \in InMonth(output[r].month)})

\* C19 witness: the store holds two entries of one date with an entry of a
\* later date of the same month between them, and the month's row counts
\* three entries on two days.
C19_Witness ==
    /\ Summarized
    /\ \E i, j, k \in 1..Len(PreStore) :
           /\ i < j /\ j < k
           /\ date_naive(PreStore[i].start_time) = date_naive(PreStore[k].start_time)
           /\ date_naive(PreStore[i].start_time) < date_naive(PreStore[j].start_time)
           /\ format_month(PreStore[i].start_time) = format_month(PreStore[j].start_time)
    /\ \E r \in 1..Len(output) : output[r].nitems = 3 /\ output[r].days = 2

\* ----------------------------------------- several namespaces (SpecNamespaces)
\* Commands go to three namespaces of one data directory: "x", "x-clockin"
\* and "x.b".
LedgerNamespaces ==
    {<<"x">>, <<"x", "-", "c", "l", "o", "c", "k", "i", "n">>, <<"x", ".", "b">>}

NextNamespaces ==
    \E ns \in LedgerNamespaces :
        \/ Abort(ns)
        \/ Clockin(ns, None, wall)
        \/ \E comment \in Comments : Clockout(ns, comment, wall)
        \/ \E hours \in HoursValues, comment \in Comments :
               ClockDuration(ns, hours, Some(wall), comment, wall)

SpecNamespaces == Init /\ [][NextNamespaces]_vars

\* The file at a path is the same before and after the last command.
SameFile(path) ==
    /\ path \in DOMAIN files <=> path \in DOMAIN pre
    /\ path \in DOMAIN pre => files[path] = pre[path]

\* C15 (as claimed): the Marker key and the entries key of the namespace N
\* of the last command differ from each other and from both keys of every
\* other namespace M, and the command leaves M's Marker and M's entries as
\* they were.  Names ending in "-clockin" or containing a dot break this.
C15_NamespacesIndependent ==
    cmd.op # "none" =>
        /\ ClockinTimestamp_relative_path(cmd.namespace)
               # Entry_relative_path(cmd.namespace)
        /\ \A M \in LedgerNamespaces \ {cmd.namespace} :
               /\ {ClockinTimestamp_relative_path(cmd.namespace),
                   Entry_relative_path(cmd.namespace)}
                      \cap {ClockinTimestamp_relative_path(M), Entry_relative_path(M)} = {}
               /\ SameFile(ClockinTimestamp_relative_path(M))
               /\ SameFile(Entry_relative_path(M))

\* ------------------------------------------- edited files (SpecEdit)
ErrEditNoClockin == "No clockin file found for namespace"
ErrEditNoEntries == "No entry file found for namespace"

\* edit opens the Marker's or the entries' file in the user's editor, which
\* leaves the file holding what the user wrote.
edit(fs, clockin_, namespace, written) ==
    LET path == IF clockin_ THEN ClockinTimestamp_relative_path(namespace)
                ELSE Entry_relative_path(namespace)
    IN  IF ~data_file_exists(fs, path)
        THEN [res |-> IF clockin_ THEN ErrEditNoClockin ELSE ErrEditNoEntries,
              files |-> fs]
        ELSE [res |-> Ok, files |-> [fs EXCEPT ![path] = written]]

\* What the user writes: text that is no YAML of either type, or a Marker
\* of the first instant.
TText == "text"
WrittenValues ==
    {serialize(TText, <<"x">>), serialize(TClockinTimestamp, [start_time |-> 0])}

Edit(ns, clockin_, written) ==
    Execute([op |-> "edit", namespace |-> ns, clockin |-> clockin_,
             written |-> written, at |-> wall],
            edit(files, clockin_, ns, written))

NextEdit ==
    \E ns \in Namespaces :
        \/ Abort(ns)
        \/ Clockin(ns, None, wall)
        \/ \E t \in Instants, comment \in Comments : Clockout(ns, comment, t)
        \/ \E hours \in HoursValues, comment \in Comments :
               ClockDuration(ns, hours, None, comment, wall)
        \/ \E clockin_ \in BOOLEAN, written \in WrittenValues : Edit(ns, clockin_, written)

SpecEdit == Init /\ [][NextEdit]_vars

\* The file is there and does not deserialize as the type.
Corrupt(fs, path, type) ==
    /\ path \in DOMAIN fs
    /\ read_data_file(fs, path, type, NoFault).res = ErrDeserialize

\* What clockOut reports in a namespace without a Marker.
IdleClockoutError == clockout(EmptyDir, cmd.comment, cmd.namespace, cmd.at, NoFault).res

\* C16 (as claimed): a clockOut whose Marker is there but does not
\* deserialize changes nothing and fails with an error that is neither the
\* one clockOut reports without a Marker nor abort's or a missing file's; a
\* clockOut or clockDuration whose entries do not deserialize fails with the
\* deserialization error and changes nothing.  clockout reports every
\* failure to read the Marker as "No clockin file found", so this fails.
C16_CorruptDataIsDistinctError ==
    /\ (cmd.op = "clockout" /\ Corrupt(pre, MarkerPath, TClockinTimestamp)) =>
           /\ files = pre
           /\ result \notin {Ok, IdleClockoutError, ErrNotRunning, ErrPathNotFound}
    /\ (/\ cmd.op \in {"clock", "clockout"}
        /\ Corrupt(pre, Entry_relative_path(cmd.namespace), TEntries)
        /\ cmd.op = "clockout" => is_some(PreMarker)) =>
           /\ files = pre
           /\ result = ErrDeserialize

\* The directory before the last command with the namespace's Marker taken
\* away if it was there, and put there if it was not.
OtherMarkerState ==
    IF Running(pre)
    THEN [p \in DOMAIN pre \ {MarkerPath} |-> pre[p]]
    ELSE pre @@ (MarkerPath :> serialize(TClockinTimestamp, [start_time |-> cmd.at]))

\* C18: clockDuration, run Idle or Running, succeeding or failing with the
\* overlap error, leaves the Marker's file as it was, and started from the
\* other Marker state it gives the same result and the same entries.
C18_ClockDurationIgnoresMarker ==
    cmd.op = "clock" =>
        LET other == clock_duration(OtherMarkerState, unwrap(cmd.hours), cmd.starting,
                                    cmd.comment, cmd.namespace, cmd.at, NoFault)
        IN  /\ SameFile(MarkerPath)
            /\ result \in {Ok, ErrOverlap}
            /\ other.res = result
            /\ Store(other.files, cmd.namespace) = PostStore

\* C18 witness: a clockDuration succeeded while the timer was running, and
\* the Marker is still the one clockIn wrote.
C18_Witness ==
    /\ cmd.op = "clock"
    /\ result = Ok
    /\ Len(PostStore) = Len(PreStore) + 1
    /\ is_some(PreMarker)
    /\ PostMarker = PreMarker

\* ------------------------------------ reports of any store (SpecTotals)
\* The commands of Spec, whose entries may end before they start, with show
\* and summarize of everything.
NextTotals ==
    \/ Next
    \/ \E ns \in Namespaces : Show(ns, None, 0)
    \/ \E ns \in Namespaces : Summarize(ns, None, 0)

SpecTotals == Init /\ [][NextTotals]_vars

\* C20 (as claimed): whatever store the core commands have left, every
\* duration show derives from an entry and every monthly total summarize
\* folds with add from zero() has its minutes in 0..59.  An entry that ends
\* before it starts has negative minutes, and so has a total it enters.
C20_MinutesNormalized ==
    /\ cmd.op = "show" =>
           \A r \in 1..Len(output) :
               output[r].duration.minutes \in 0..(MinutesPerHour - 1)
    /\ cmd.op = "summarize" =>
           \A r \in 1..Len(output) :
               output[r].total_hours.minutes \in 0..(MinutesPerHour - 1)

\* Every entry of the store before the last command is in the store after it
\* at least as many times.
KeepsEntries ==
    \A e \in DOMAIN BagOfSeq(PreStore) :
        /\ e \in DOMAIN BagOfSeq(PostStore)
        /\ BagOfSeq(PostStore)[e] >= BagOfSeq(PreStore)[e]

AddsEntry == cmd.op \in {"clock", "clockout"} /\ result = Ok

\* C21: every command, successful or failed, keeps every stored entry with
\* its start_time, end_time and comment; a successful clockOut or
\* clockDuration makes the store one entry longer and every other command
\* and every failed command leaves its length as it was.
C21_StoreIsAppendOnly ==
    cmd.op # "none" =>
        /\ KeepsEntries
        /\ Len(PostStore) = Len(PreStore) + (IF AddsEntry THEN 1 ELSE 0)
        /\ ~AddsEntry => PostStore = PreStore

\* C21 witness: an entry that starts before the stored one was added by a
\* clockOut, behind it, and the stored one is as it was.
C21_Witness ==
    /\ cmd.op = "clockout"
    /\ result = Ok
    /\ Len(PreStore) = 1
    /\ Len(PostStore) = 2
    /\ PostStore[1] = PreStore[1]
    /\ PostStore[2].start_time < PostStore[1].start_time

\* ------------------------------- invocations side by side (SpecRace)
\* Two invocations of the program run on one namespace at 17:30, each
\* through a script of one or two commands; a step of an invocation is one
\* access to a file or one check between two accesses, and the steps of the
\* two interleave freely.
Procs == {1, 2}

Scripts ==
    {<<"clock">>, <<"clockin">>, <<"clockout">>,
     <<"clockin", "clock">>, <<"clockin", "clockout">>}

\* An invocation between two commands: the commands it has yet to run and
\* the log of those it has run.
IdleProc(script) ==
    [script |-> script, op |-> "none", pc |-> "idle", comment |-> None,
     start |-> 0, end |-> 0, entries |-> <<>>, log |-> <<>>]

InitRace ==
    /\ files = EmptyDir
    /\ wall = ScenarioMinute * SecondsPerMinute
    /\ cmd = Command("none", DEFAULT_NAMESPACE, None, None, None, 0)
    /\ pre = EmptyDir
    /\ result = Ok
    /\ output = <<>>
    /\ procs \in [Procs -> {IdleProc(s) : s \in Scripts}]

RaceNamespace == DEFAULT_NAMESPACE

\* The command returns res: it is logged with what it loaded and asked for.
Finish(p, res) ==
    procs' = [procs EXCEPT ![p] =
        [@ EXCEPT !.pc = "idle", !.op = "none", !.script = Tail(@),
                  !.log = Append(@, [op |-> procs[p].op, res |-> res,
                                     start |-> procs[p].start, end |-> procs[p].end,
                                     comment |-> procs[p].comment,
                                     entries |-> procs[p].entries])]]

Goto(p, pc) == procs' = [procs EXCEPT ![p].pc = pc]

\* clock_duration up to its call of clock: the span is computed.
BeginClock(p, hours, starting, comment) ==
    /\ procs[p].pc = "idle" /\ procs[p].script # <<>> /\ Head(procs[p].script) = "clock"
    /\ LET duration == duration_of_hours(hours)
           start == IF is_some(starting) THEN unwrap(starting) ELSE now(wall) - duration
           end == IF is_some(starting) THEN unwrap(starting) + duration ELSE now(wall)
       IN  procs' = [procs EXCEPT ![p] =
               [@ EXCEPT !.op = "clock", !.pc = "load", !.start = start, !.end = end,
                         !.comment = comment, !.entries = <<>>]]
    /\ UNCHANGED <<files, wall, cmd, pre, result, output>>

\* clockin up to its test of the Marker's file: the timestamp is made.
BeginClockin(p, starting) ==
    /\ procs[p].pc = "idle" /\ procs[p].script # <<>> /\ Head(procs[p].script) = "clockin"
    /\ procs' = [procs EXCEPT ![p] =
           [@ EXCEPT !.op = "clockin", !.pc = "exists",
                     !.start = IF is_some(starting) THEN unwrap(starting) ELSE now(wall),
                     !.end = 0, !.comment = None, !.entries = <<>>]]
    /\ UNCHANGED <<files, wall, cmd, pre, result, output>>

BeginClockout(p, comment) ==
    /\ procs[p].pc = "idle" /\ procs[p].script # <<>> /\ Head(procs[p].script) = "clockout"
    /\ procs' = [procs EXCEPT ![p] =
           [@ EXCEPT !.op = "clockout", !.pc = "read_marker", !.start = 0, !.end = 0,
                     !.comment = comment, !.entries = <<>>]]
    /\ UNCHANGED <<files, wall, cmd, pre, result, output>>

\* clockin: the Marker's file is looked for.
Exists(p) ==
    /\ procs[p].pc = "exists"
    /\ IF data_file_exists(files, ClockinTimestamp_relative_path(RaceNamespace))
       THEN Finish(p, ErrAlreadyExists)
       ELSE Goto(p, "write_marker")
    /\ UNCHANGED <<files, wall, cmd, pre, result, output>>

\* clockin: the Marker is written.
WriteMarker(p) ==
    /\ procs[p].pc = "write_marker"
    /\ LET r == write_data_file(files, ClockinTimestamp_relative_path(RaceNamespace),
                                TClockinTimestamp, [start_time |-> procs[p].start], NoFault)
       IN  files' = r.files /\ Finish(p, r.res)
    /\ UNCHANGED <<wall, cmd, pre, result, output>>

\* clockout: the Marker is read and the span is computed.
ReadMarker(p) ==
    /\ procs[p].pc = "read_marker"
    /\ LET r == read_data_file(files, ClockinTimestamp_relative_path(RaceNamespace),
                               TClockinTimestamp, NoFault)
       IN  IF r.res # Ok THEN Finish(p, ErrNoClockin)
           ELSE procs' = [procs EXCEPT ![p] =
                    [@ EXCEPT !.pc = "load", !.start = r.val.start_time,
                              !.end = now(wall)]]
    /\ UNCHANGED <<files, wall, cmd, pre, result, output>>

\* clock: the entries are loaded and sorted.
Load(p) ==
    /\ procs[p].pc = "load"
    /\ LET path == Entry_relative_path(RaceNamespace)
           loaded == IF data_file_exists(files, path)
                     THEN read_data_file(files, path, TEntries, NoFault)
                     ELSE [res |-> Ok, val |-> <<>>]
       IN  IF loaded.res # Ok THEN Finish(p, loaded.res)
           ELSE procs' = [procs EXCEPT ![p] =
                    [@ EXCEPT !.pc = "validate", !.entries = sort(loaded.val)]]
    /\ UNCHANGED <<files, wall, cmd, pre, result, output>>

ProcEntry(p) == Entry_create(procs[p].start, procs[p].end, procs[p].comment)

\* clock: the new entry is tested against the loaded ones.
Validate(p) ==
    /\ procs[p].pc = "validate"
    /\ IF \E i \in 1..Len(procs[p].entries) :
              entries_overlap(ProcEntry(p), procs[p].entries[i])
       THEN Finish(p, ErrOverlap)
       ELSE Goto(p, "write")
    /\ UNCHANGED <<files, wall, cmd, pre, result, output>>

\* Mutant: the entries are loaded again at the moment of writing.
Write_reloads(p) ==
    /\ procs[p].pc = "write"
    /\ LET r == write_data_file(files, Entry_relative_path(RaceNamespace), TEntries,
                                Append(sort(Store(files, RaceNamespace)), ProcEntry(p)),
                                NoFault)
       IN  /\ files' = r.files
           /\ IF procs[p].op = "clockout" /\ r.res = Ok
              THEN Goto(p, "remove")
              ELSE Finish(p, r.res)
    /\ UNCHANGED <<wall, cmd, pre, result, output>>

\* clock: the loaded entries and the new one are written; clockout goes on
\* to delete the Marker.
Write(p) ==
    /\ procs[p].pc = "write"
    /\ LET r == write_data_file(files, Entry_relative_path(RaceNamespace), TEntries,
                                Append(procs[p].entries, ProcEntry(p)), NoFault)
       IN  /\ files' = r.files
           /\ IF procs[p].op = "clockout" /\ r.res = Ok
              THEN Goto(p, "remove")
              ELSE Finish(p, r.res)
    /\ UNCHANGED <<wall, cmd, pre, result, output>>

\* clockout: the Marker is deleted.
Remove(p) ==
    /\ procs[p].pc = "remove"
    /\ LET r == remove_data_file(files, ClockinTimestamp_relative_path(RaceNamespace),
                                 NoFault)
       IN  files' = r.files /\ Finish(p, r.res)
    /\ UNCHANGED <<wall, cmd, pre, result, output>>

NextRace ==
    \E p \in Procs :
        \/ \E hours \in HoursValues, starting \in StartingValues, comment \in Comments :
               BeginClock(p, hours, starting, comment)
        \/ \E starting \in StartingValues : BeginClockin(p, starting)
        \/ \E comment \in Comments : BeginClockout(p, comment)
        \/ Exists(p)
        \/ WriteMarker(p)
        \/ ReadMarker(p)
        \/ Load(p)
        \/ Validate(p)
        \/ Write(p)
        \/ Remove(p)

SpecRace == InitRace /\ [][NextRace]_vars

\* The commands an invocation has run, and among them those that returned
\* Ok.
Logged(p, op) == {i \in 1..Len(procs[p].log) : procs[p].log[i].op = op}
LoggedOk(p, op) == {i \in Logged(p, op) : procs[p].log[i].res = Ok}
LogEntry(l) == Entry_create(l.start, l.end, l.comment)

\* The stores an invocation has written: what it had loaded with its own
\* entry behind, for every clock and clockout that got as far as writing.
Written(p) ==
    {Append(procs[p].log[i].entries, LogEntry(procs[p].log[i])) :
        i \in {j \in Logged(p, "clock") \cup Logged(p, "clockout") :
                  procs[p].log[j].res \in {Ok, ErrPathNotFound}}}
    \cup (IF procs[p].pc = "remove" THEN {Append(procs[p].entries, ProcEntry(p))} ELSE {})

RaceStore == Store(files, RaceNamespace)
RaceMarker == Marker(files, RaceNamespace)

\* C22: with the steps of two invocations interleaved the last write wins:
\* the store is always what one invocation loaded plus that invocation's own
\* entry, never a merge of what both added, and the Marker is the timestamp
\* of one clockin.  So two commands that each loaded before the other wrote
\* both return Ok and one entry is lost; see the witness.
C22_LastWriteWins ==
    /\ Entry_relative_path(RaceNamespace) \in DOMAIN files =>
           \E p \in Procs : RaceStore \in Written(p)
    /\ is_some(RaceMarker) =>
           \E p \in Procs : \E i \in LoggedOk(p, "clockin") :
               procs[p].log[i].start = unwrap(RaceMarker).start_time

\* C22 witness: both invocations ran clockin and then clock, all four
\* commands returned Ok, the two timestamps differ and so do the two
\* entries, and there is one Marker and one entry.
C22_Witness ==
    /\ \A p \in Procs :
           /\ Len(procs[p].log) = 2
           /\ LoggedOk(p, "clockin") = {1}
           /\ LoggedOk(p, "clock") = {2}
    /\ procs[1].log[1].start # procs[2].log[1].start
    /\ LogEntry(procs[1].log[2]) # LogEntry(procs[2].log[2])
    /\ ~entries_overlap(LogEntry(procs[1].log[2]), LogEntry(procs[2].log[2]))
    /\ is_some(RaceMarker)
    /\ Len(RaceStore) = 1

\* The instant lies strictly inside the span of an entry of the store.
InsideAnEntry(t, store) ==
    \E i \in 1..Len(store) : store[i].start_time < t /\ t < store[i].end_time

\* The timestamp the last command, a clockin, asked for.
AskedStart == IF is_some(cmd.starting) THEN unwrap(cmd.starting) ELSE now(cmd.at)

\* The timer was running from a start inside a stored entry when the last
\* command began.
StuckBefore == is_some(PreMarker) /\ InsideAnEntry(unwrap(PreMarker).start_time, PreStore)

\* C23: a clockin in state Idle succeeds also when its start time lies
\* strictly inside a stored entry; while the Marker holds such a start every
\* clockout, at whatever time, fails with the overlap error and changes
\* nothing, every command but abort leaves the Marker and the entry around
\* it in place, and abort deletes the Marker.
C23_ClockinInsideEntryBlocksClockout ==
    /\ (cmd.op = "clockin" /\ ~Running(pre) /\ InsideAnEntry(AskedStart, PreStore)) =>
           /\ result = Ok
           /\ PostMarker = Some([start_time |-> AskedStart])
           /\ PostStore = PreStore
    /\ StuckBefore =>
           /\ cmd.op = "clockout" => result = ErrOverlap /\ files = pre
           /\ cmd.op # "abort" =>
                  /\ PostMarker = PreMarker
                  /\ InsideAnEntry(unwrap(PostMarker).start_time, PostStore)
           /\ cmd.op = "abort" => result = Ok /\ ~Running(files) /\ PostStore = PreStore

\* C23 witness: the timer was started inside a stored entry, and a clockout
\* at a later time has failed with the overlap error and left it running.
C23_Witness ==
    /\ StuckBefore
    /\ cmd.op = "clockout"
    /\ cmd.at > unwrap(PreMarker).start_time
    /\ result = ErrOverlap
    /\ Running(files)

\* ------------------------------------------------- storage failures
\* The commands of Spec, where a clockout may meet one storage failure at
\* any of its steps.
Faults == {NoFault, FaultReadMarker, FaultReadEntries, FaultWrite, FaultWriteAll,
           FaultRemove}

ClockoutFault(ns, comment, t, fault) ==
    Execute([op |-> "clockout", namespace |-> ns, starting |-> None, hours |-> None,
             comment |-> comment, at |-> t, fault |-> fault],
            clockout(files, comment, ns, t, fault))

NextFaults ==
    \E ns \in Namespaces :
        \/ Abort(ns)
        \/ \E starting \in StartingValues, t \in Instants : Clockin(ns, starting, t)
        \/ \E comment \in Comments, t \in Instants, fault \in Faults :
               ClockoutFault(ns, comment, t, fault)
        \/ \E hours \in HoursValues, starting \in StartingValues, comment \in Comments,
              t \in Instants :
               ClockDuration(ns, hours, starting, comment, t)

SpecFaults == Init /\ [][NextFaults]_vars

\* C24 (as claimed): a clockout that reports an error, a storage failure at
\* any of its steps included, leaves every file of the data directory, the
\* entries file and the clockin file, exactly as it found it.
C24_FailedClockoutChangesNothing ==
    (cmd.op = "clockout" /\ result # Ok) => files = pre

====
